---------------------------- MODULE Spec2Model ----------------------------
(***************************************************************************)
(* Model of src/src/main.py: the Time Travel Image Transformer service.    *)
(*                                                                         *)
(* Module start-up (lines 15-38, 40, 164) is a sequence of steps; each     *)
(* request to POST /transform-image/ walks through the statements of       *)
(* transform_image (lines 41-162), one action per statement group.  Every  *)
(* action that raises also runs the handler of lines 160-162.              *)
(*                                                                         *)
(* Byte strings are sequences of integers 0..255.  Text is a sequence of   *)
(* string tokens (an f-string is the concatenation of its pieces).         *)
(***************************************************************************)
EXTENDS Integers, Sequences, FiniteSets, TLC

VARIABLES
    startup,    \* position of the module's top-level code
    env_key,    \* value of GEMINI_API_KEY seen by os.getenv
    client,     \* the genai.Client (module-level singleton)
    routes,     \* paths registered on the FastAPI app
    root_reply, \* last reply of GET /
    req,        \* per request: the locals of transform_image and its reply
    running,    \* the request whose coroutine holds the event loop, or 0
    files       \* local storage: path -> contents and who wrote it

vars == <<startup, env_key, client, routes, root_reply, req, running, files>>

None == "None"

(***************************************************************************)
(* Bounds of the input universe.                                           *)
(***************************************************************************)
MaxData == 1    \* longest pixel-data section of a generated image file
MaxParts == 2   \* most parts in one model response

(***************************************************************************)
(* Bytes and image files.                                                  *)
(*                                                                         *)
(* PIL is abstracted at the level of the container: a file is a signature, *)
(* one header byte giving the colour layout, a data section and a trailer. *)
(*   PNG  : 89 'P' 'N' 'G' 0D 0A 1A 0A | colour type | data | 'I''E''N''D' *)
(*   JPEG : FF D8 FF | number of components | data | FF D9                 *)
(***************************************************************************)
PNG_SIG == <<137, 80, 78, 71, 13, 10, 26, 10>>
PNG_END == <<73, 69, 78, 68>>
JPEG_SOI == <<255, 216, 255>>
JPEG_EOI == <<255, 217>>

HasPrefix(b, p) == Len(b) >= Len(p) /\ SubSeq(b, 1, Len(p)) = p
HasSuffix(b, s) == Len(b) >= Len(s) /\ SubSeq(b, Len(b) - Len(s) + 1, Len(b)) = s

PngMode(ct) ==
    CASE ct = 0 -> "L" [] ct = 2 -> "RGB" [] ct = 3 -> "P" [] ct = 6 -> "RGBA"
      [] OTHER -> None

PngWritable(mode) == mode \in {"L", "RGB", "P", "RGBA"}

PngColourType(mode) ==
    CASE mode = "L" -> 0 [] mode = "RGB" -> 2 [] mode = "P" -> 3 [] OTHER -> 6

JpegMode(n) ==
    CASE n = 1 -> "L" [] n = 3 -> "RGB" [] n = 4 -> "CMYK" [] OTHER -> None

PngFile(ct, data) == PNG_SIG \o <<ct>> \o data \o PNG_END
JpegFile(n, data) == JPEG_SOI \o <<n>> \o data \o JPEG_EOI

NoImage == [format |-> None, mode |-> None, pixels |-> <<>>, complete |-> FALSE]

\* Image.open: identify the container from its signature and read its header.
\* The pixel data is not decoded yet (PIL loads lazily).
PILOpen(b) ==
    IF HasPrefix(b, PNG_SIG) /\ Len(b) > Len(PNG_SIG)
          /\ PngMode(b[Len(PNG_SIG) + 1]) # None
    THEN LET full == HasSuffix(b, PNG_END) /\ Len(b) >= Len(PNG_SIG) + 1 + Len(PNG_END)
         IN [ok |-> TRUE, msg |-> <<>>,
             img |-> [format |-> "PNG", mode |-> PngMode(b[Len(PNG_SIG) + 1]),
                      pixels |-> IF full
                                 THEN SubSeq(b, Len(PNG_SIG) + 2, Len(b) - Len(PNG_END))
                                 ELSE SubSeq(b, Len(PNG_SIG) + 2, Len(b)),
                      complete |-> full]]
    ELSE IF HasPrefix(b, JPEG_SOI) /\ Len(b) > Len(JPEG_SOI)
          /\ JpegMode(b[Len(JPEG_SOI) + 1]) # None
    THEN LET full == HasSuffix(b, JPEG_EOI) /\ Len(b) >= Len(JPEG_SOI) + 1 + Len(JPEG_EOI)
         IN [ok |-> TRUE, msg |-> <<>>,
             img |-> [format |-> "JPEG", mode |-> JpegMode(b[Len(JPEG_SOI) + 1]),
                      pixels |-> IF full
                                 THEN SubSeq(b, Len(JPEG_SOI) + 2, Len(b) - Len(JPEG_EOI))
                                 ELSE SubSeq(b, Len(JPEG_SOI) + 2, Len(b)),
                      complete |-> full]]
    ELSE [ok |-> FALSE, msg |-> <<"cannot identify image file">>, img |-> NoImage]

\* img.verify(): PngImageFile walks the chunks up to IEND; every other plugin
\* inherits a verify() that checks nothing.
PILVerify(img) ==
    IF img.format = "PNG" /\ ~img.complete
    THEN [ok |-> FALSE, msg |-> <<"Truncated File Read">>]
    ELSE [ok |-> TRUE, msg |-> <<>>]

\* Image.open(...); .verify(); Image.open(...) again, inside one try block.
OpenVerified(b) ==
    LET o == PILOpen(b) IN
    IF ~o.ok THEN o
    ELSE LET v == PILVerify(o.img) IN
         IF ~v.ok THEN [ok |-> FALSE, msg |-> v.msg, img |-> NoImage]
         ELSE PILOpen(b)

\* img.convert("RGB").save(buffer, format="PNG"): loads the pixel data.
ConvertSavePNG(img) ==
    IF ~img.complete
    THEN [ok |-> FALSE, msg |-> <<"image file is truncated">>, data |-> <<>>]
    ELSE [ok |-> TRUE, msg |-> <<>>, data |-> PngFile(PngColourType("RGB"), img.pixels)]

\* new_img.save(output_buffer, format="PNG"): keeps the image's own mode.
SavePNG(img) ==
    IF ~img.complete
    THEN [ok |-> FALSE, msg |-> <<"image file is truncated">>, data |-> <<>>]
    ELSE IF ~PngWritable(img.mode)
    THEN [ok |-> FALSE, msg |-> <<"cannot write mode ", img.mode, " as PNG">>, data |-> <<>>]
    ELSE [ok |-> TRUE, msg |-> <<>>, data |-> PngFile(PngColourType(img.mode), img.pixels)]

(***************************************************************************)
(* base64.b64decode(s) with its default validate=False, as binascii's      *)
(* a2b_base64 computes it: bytes outside the alphabet are skipped, '='     *)
(* ends the input once a quad is at least half full, and a quad left       *)
(* unfinished at the end of the input is an error.                         *)
(***************************************************************************)
B64Index(c) ==
    IF c \in 65..90 THEN c - 65
    ELSE IF c \in 97..122 THEN c - 71
    ELSE IF c \in 48..57 THEN c + 4
    ELSE IF c = 43 THEN 62
    ELSE IF c = 47 THEN 63
    ELSE 64

RECURSIVE A2B(_, _, _, _, _, _)
A2B(s, i, quad, left, pads, out) ==
    IF i > Len(s)
    THEN IF quad # 0
         THEN [ok |-> FALSE, data |-> <<>>,
               msg |-> IF quad = 1
                       THEN <<"Invalid base64-encoded string">>
                       ELSE <<"Incorrect padding">>]
         ELSE [ok |-> TRUE, data |-> out, msg |-> <<>>]
    ELSE IF s[i] = 61
    THEN IF quad >= 2 /\ quad + pads + 1 >= 4
         THEN [ok |-> TRUE, data |-> out, msg |-> <<>>]
         ELSE A2B(s, i + 1, quad, left, IF quad >= 2 THEN pads + 1 ELSE pads, out)
    ELSE LET v == B64Index(s[i]) IN
         IF v >= 64 THEN A2B(s, i + 1, quad, left, pads, out)
         ELSE CASE quad = 0 -> A2B(s, i + 1, 1, v, 0, out)
                [] quad = 1 ->
                     A2B(s, i + 1, 2, v % 16, 0, Append(out, (left * 4 + v \div 16) % 256))
                [] quad = 2 ->
                     A2B(s, i + 1, 3, v % 4, 0, Append(out, (left * 16 + v \div 4) % 256))
                [] OTHER ->
                     A2B(s, i + 1, 0, 0, 0, Append(out, (left * 64 + v) % 256))

B64Decode(s) == A2B(s, 1, 0, 0, 0, <<>>)

\* The encoder of the remote service, for responses that carry base64 text.
B64Char(v) ==
    IF v < 26 THEN v + 65
    ELSE IF v < 52 THEN v + 71
    ELSE IF v < 62 THEN v - 4
    ELSE IF v = 62 THEN 43 ELSE 47

RECURSIVE B64Encode(_)
B64Encode(b) ==
    IF Len(b) = 0 THEN <<>>
    ELSE IF Len(b) = 1
    THEN <<B64Char(b[1] \div 4), B64Char((b[1] % 4) * 16), 61, 61>>
    ELSE IF Len(b) = 2
    THEN <<B64Char(b[1] \div 4), B64Char((b[1] % 4) * 16 + b[2] \div 16),
           B64Char((b[2] % 16) * 4), 61>>
    ELSE <<B64Char(b[1] \div 4), B64Char((b[1] % 4) * 16 + b[2] \div 16),
           B64Char((b[2] % 16) * 4 + b[3] \div 64), B64Char(b[3] % 64)>>
         \o B64Encode(SubSeq(b, 4, Len(b)))

(***************************************************************************)
(* Text: str(int) and the f-strings of the handler.                        *)
(***************************************************************************)
Digit(d) ==
    CASE d = 0 -> "0" [] d = 1 -> "1" [] d = 2 -> "2" [] d = 3 -> "3" [] d = 4 -> "4"
      [] d = 5 -> "5" [] d = 6 -> "6" [] d = 7 -> "7" [] d = 8 -> "8" [] OTHER -> "9"

RECURSIVE NatToStr(_)
NatToStr(n) == IF n < 10 THEN <<Digit(n)>> ELSE NatToStr(n \div 10) \o <<Digit(n % 10)>>

IntToStr(n) == IF n < 0 THEN <<"-">> \o NatToStr(0 - n) ELSE NatToStr(n)

Contains(text, piece) ==
    \E i \in 0..(Len(text) - Len(piece)) : SubSeq(text, i + 1, i + Len(piece)) = piece

(***************************************************************************)
(* Exceptions and HTTP replies.                                            *)
(***************************************************************************)
NoExc == [raised |-> FALSE, http |-> FALSE, status |-> 0, detail |-> <<>>]
Exc(msg) == [raised |-> TRUE, http |-> FALSE, status |-> 0, detail |-> msg]
HTTPExc(status, detail) ==
    [raised |-> TRUE, http |-> TRUE, status |-> status, detail |-> detail]

\* str(e): Starlette's HTTPException prints "<status>: <detail>", any other
\* exception prints its message.
StrExc(e) == IF e.http THEN IntToStr(e.status) \o <<": ">> \o e.detail ELSE e.detail

NoReply ==
    [status |-> 0, media_type |-> None, disposition |-> <<>>, body |-> <<>>,
     detail |-> <<>>]
ErrorReply(status, detail) ==
    [status |-> status, media_type |-> "application/json", disposition |-> <<>>,
     body |-> <<>>, detail |-> detail]

\* A handler that answers without the exception's text.
HandlerWithoutMessage(e) == ErrorReply(500, <<"Error processing image">>)

\* Lines 160-162: `except Exception as e` around the whole body.  HTTPException
\* is an Exception, so the handler's own HTTPExceptions arrive here too.
Handler(e) == ErrorReply(500, <<"Error processing image: ">> \o StrExc(e))

Fail(q, e) == [q EXCEPT !.pc = "done", !.exc = e, !.reply = Handler(e)]

(***************************************************************************)
(* Requests and model responses.                                           *)
(***************************************************************************)
NoContentType == <<None>>
ImagePng == <<"image/", "png">>
ImageJpeg == <<"image/", "jpeg">>

\* file.content_type.startswith("image/")
StartsWithImage(ct) == Len(ct) > 0 /\ ct[1] = "image/"

NoBlob == [mime_type |-> <<>>, data |-> <<>>]
TextPart == [text |-> "text", has_inline |-> FALSE, inline_data |-> NoBlob]
InlinePart(p) ==
    [text |-> None, has_inline |-> TRUE, inline_data |-> [mime_type |-> ImagePng, data |-> p]]

\* The comprehension walking the parts from the last to the first.
RECURSIVE ImagePartsReversed(_)
ImagePartsReversed(parts) ==
    IF parts = <<>> THEN <<>>
    ELSE IF parts[Len(parts)].has_inline
    THEN <<parts[Len(parts)].inline_data.data>>
           \o ImagePartsReversed(SubSeq(parts, 1, Len(parts) - 1))
    ELSE ImagePartsReversed(SubSeq(parts, 1, Len(parts) - 1))

\* Lines 113-117: [part.inline_data.data for part in parts if part.inline_data]
RECURSIVE ImageParts(_)
ImageParts(parts) ==
    IF parts = <<>> THEN <<>>
    ELSE IF Head(parts).has_inline
    THEN <<Head(parts).inline_data.data>> \o ImageParts(Tail(parts))
    ELSE ImageParts(Tail(parts))

\* Lines 127, 157: the two names derived from the year.
DebugPath(year) == <<"raw_response_">> \o IntToStr(year) \o <<".bin">>
Disposition(year) == <<"attachment; filename=time_travel_">> \o IntToStr(year) \o <<".png">>

\* Lines 72-84: the blob submitted to the model.
Normalized(ct, img, data) ==
    IF ct \notin {ImagePng, ImageJpeg}
    THEN LET c == ConvertSavePNG(img) IN
         [ok |-> c.ok, msg |-> c.msg, mime_type |-> ImagePng, data |-> c.data]
    ELSE IF img.format # "PNG"
    THEN LET c == ConvertSavePNG(img) IN
         [ok |-> c.ok, msg |-> c.msg, mime_type |-> ImagePng, data |-> c.data]
    ELSE [ok |-> TRUE, msg |-> <<>>, mime_type |-> ct, data |-> data]

\* Lines 132-137: try b64decode, keep the raw bytes if it raises.
SpeculativeDecode(payload) ==
    LET d == B64Decode(payload) IN IF d.ok THEN d.data ELSE payload

IdleRequest ==
    [pc |-> "idle", content_type |-> NoContentType, upload |-> <<>>, year |-> 0,
     image_data |-> <<>>, original_img |-> NoImage, mime_type |-> <<>>,
     api_calls |-> 0, sent |-> NoBlob, outcome |-> "none", parts |-> <<>>,
     image_parts |-> <<>>, debug |-> "none", image_data_decoded |-> <<>>,
     new_img |-> NoImage, exc |-> NoExc, reply |-> NoReply]

(***************************************************************************)
(* Start-up: the module's top-level statements in order.                   *)
(***************************************************************************)
NoClient == [created |-> FALSE, api_key |-> None]
RootMessage == "Time Travel Image Transformer API is running"

\* `API_KEY is None` in place of `not API_KEY`: an empty key passes.
KeyMissingOnlyNone(k) == k = None

\* Line 36: `not API_KEY`
KeyMissing(k) == k = None \/ k = ""

CreateApp ==
    /\ startup = "load"
    /\ startup' = "app"
    /\ UNCHANGED <<env_key, client, routes, root_reply, req, running, files>>

LoadKey ==
    /\ startup = "app"
    /\ startup' = IF KeyMissing(env_key) THEN "crashed" ELSE "key"
    /\ UNCHANGED <<env_key, client, routes, root_reply, req, running, files>>

CreateClient ==
    /\ startup = "key"
    /\ client' = [created |-> TRUE, api_key |-> env_key]
    /\ startup' = "client"
    /\ UNCHANGED <<env_key, routes, root_reply, req, running, files>>

RegisterTransform ==
    /\ startup = "client"
    /\ routes' = routes \cup {"/transform-image/"}
    /\ startup' = "transform_registered"
    /\ UNCHANGED <<env_key, client, root_reply, req, running, files>>

RegisterRoot ==
    /\ startup = "transform_registered"
    /\ routes' = routes \cup {"/"}
    /\ startup' = "serving"
    /\ UNCHANGED <<env_key, client, root_reply, req, running, files>>

\* GET /
Root ==
    /\ startup = "serving"
    /\ "/" \in routes
    /\ running = 0
    /\ root_reply' = RootMessage
    /\ UNCHANGED <<startup, env_key, client, routes, req, running, files>>

(***************************************************************************)
(* POST /transform-image/ : transform_image, statement by statement.       *)
(***************************************************************************)
\* transform_image is a coroutine on the server's single event loop.  Its only
\* await is file.read() (line 53); everything after it, the call to the model
\* included, is synchronous and keeps the loop until the reply is made.
Step(r, q) ==
    /\ req' = [req EXCEPT ![r] = q]
    /\ running' = IF q.pc \in {"read", "done"} THEN 0 ELSE r
    /\ UNCHANGED <<startup, env_key, client, routes, root_reply>>

Receive(r, ct, b, y) ==
    /\ startup = "serving"
    /\ "/transform-image/" \in routes
    /\ req[r].pc = "idle"
    /\ req' = [req EXCEPT ![r] = [@ EXCEPT !.pc = "check_type", !.content_type = ct,
                                           !.upload = b, !.year = y]]
    /\ UNCHANGED <<startup, env_key, client, routes, root_reply, running, files>>

\* Lines 48-50
CheckType(r) ==
    /\ req[r].pc = "check_type"
    /\ running = 0
    /\ LET q == req[r] IN
       Step(r, IF q.content_type = NoContentType
               THEN Fail(q, Exc(<<"'NoneType' object has no attribute 'startswith'">>))
               ELSE IF ~StartsWithImage(q.content_type)
               THEN Fail(q, HTTPExc(400, <<"File must be an image">>))
               ELSE [q EXCEPT !.pc = "read"])
    /\ UNCHANGED files

\* Lines 53-56
ReadFile(r) ==
    /\ req[r].pc = "read"
    /\ running = 0
    /\ LET q == req[r] IN
       Step(r, IF q.upload = <<>>
               THEN Fail([q EXCEPT !.image_data = q.upload],
                         HTTPExc(400, <<"Uploaded file is empty">>))
               ELSE [q EXCEPT !.pc = "open", !.image_data = q.upload])
    /\ UNCHANGED files

\* Lines 62-69
OpenImage(r) ==
    /\ req[r].pc = "open"
    /\ running = r
    /\ LET q == req[r]
           o == OpenVerified(q.image_data)
       IN Step(r, IF ~o.ok
                  THEN Fail(q, HTTPExc(400, <<"Invalid image file: ">> \o o.msg))
                  ELSE [q EXCEPT !.pc = "normalize", !.original_img = o.img])
    /\ UNCHANGED files

\* Lines 72-84
Normalize(r) ==
    /\ req[r].pc = "normalize"
    /\ running = r
    /\ LET q == req[r]
           n == Normalized(q.content_type, q.original_img, q.image_data)
       IN Step(r, IF ~n.ok
                  THEN Fail(q, Exc(n.msg))
                  ELSE [q EXCEPT !.pc = "call", !.mime_type = n.mime_type,
                                 !.image_data = n.data])
    /\ UNCHANGED files

\* Lines 91-107: one synchronous call; `out` is what the service does.
CallModel(r, out) ==
    /\ req[r].pc = "call"
    /\ running = r
    /\ client.created
    /\ LET q == [req[r] EXCEPT !.api_calls = @ + 1,
                               !.sent = [mime_type |-> req[r].mime_type,
                                         data |-> req[r].image_data],
                               !.outcome = out.kind]
       IN Step(r, IF out.kind = "error"
                  THEN Fail(q, Exc(out.msg))
                  ELSE [q EXCEPT !.pc = "extract", !.parts = out.parts])
    /\ UNCHANGED files

\* Lines 110-121
ExtractParts(r) ==
    /\ req[r].pc = "extract"
    /\ running = r
    /\ LET q == req[r] IN
       Step(r, IF q.outcome = "no_candidates"
               THEN Fail(q, Exc(<<"'NoneType' object is not subscriptable">>))
               ELSE IF ImageParts(q.parts) = <<>>
               THEN Fail([q EXCEPT !.image_parts = <<>>],
                         HTTPExc(500, <<"No image data found in Gemini API response">>))
               ELSE [q EXCEPT !.pc = "debug", !.image_parts = ImageParts(q.parts)])
    /\ UNCHANGED files

PermissionDenied == <<"[Errno 13] Permission denied">>
NoSpaceLeft == <<"[Errno 28] No space left on device">>

\* Lines 127-128: open(..., "wb") and write; `how` is what the file system does.
SaveDebug(r, how) ==
    /\ req[r].pc = "debug"
    /\ running = r
    /\ LET q == [req[r] EXCEPT !.debug = how]
           path == DebugPath(q.year)
           old == IF path \in DOMAIN files THEN files[path].writers ELSE {}
           put(data) == [p \in DOMAIN files \cup {path} |->
                           IF p = path
                           THEN [data |-> data, writers |-> old \cup {r}]
                           ELSE files[p]]
       IN CASE how = "open_fails" ->
                 /\ Step(r, Fail(q, Exc(PermissionDenied)))
                 /\ UNCHANGED files
            [] how = "write_fails" ->
                 /\ Step(r, Fail(q, Exc(NoSpaceLeft)))
                 /\ files' = put(<<>>)
            [] OTHER ->
                 /\ Step(r, [q EXCEPT !.pc = "b64"])
                 /\ files' = put(q.image_parts[1])

\* Lines 132-137
DecodeB64(r) ==
    /\ req[r].pc = "b64"
    /\ running = r
    /\ Step(r, [req[r] EXCEPT !.pc = "reopen",
                              !.image_data_decoded = SpeculativeDecode(req[r].image_parts[1])])
    /\ UNCHANGED files

\* Lines 140-146
OpenTransformed(r) ==
    /\ req[r].pc = "reopen"
    /\ running = r
    /\ LET q == req[r]
           o == OpenVerified(q.image_data_decoded)
       IN Step(r, IF ~o.ok
                  THEN Fail(q, HTTPExc(500, <<"Error processing transformed image: ">>
                                              \o o.msg))
                  ELSE [q EXCEPT !.pc = "encode", !.new_img = o.img])
    /\ UNCHANGED files

\* Lines 149-158
Respond(r) ==
    /\ req[r].pc = "encode"
    /\ running = r
    /\ LET q == req[r]
           s == SavePNG(q.new_img)
       IN Step(r, IF ~s.ok
                  THEN Fail(q, Exc(s.msg))
                  ELSE [q EXCEPT !.pc = "done",
                                 !.reply = [status |-> 200, media_type |-> "image/png",
                                            disposition |-> Disposition(q.year),
                                            body |-> s.data, detail |-> <<>>]])
    /\ UNCHANGED files

(***************************************************************************)
(* What clients, the model service and the file system may do.             *)
(***************************************************************************)
Years == {1980, -44}
ContentTypes ==
    {NoContentType, <<"text/", "plain">>, ImagePng, ImageJpeg, <<"image/", "gif">>}

TextFile == <<72, 105>>
UploadFiles ==
    { <<>>, TextFile,
      PngFile(2, <<0>>), PngFile(6, <<0>>), PNG_SIG \o <<2, 0>>,
      JpegFile(3, <<0>>), JpegFile(4, <<0>>), JPEG_SOI \o <<3, 0>> }

DataBytes == {0, 65, 61}
DataSet == UNION {[1..n -> DataBytes] : n \in 0..MaxData}

Payloads ==
    {PngFile(2, d) : d \in DataSet}
      \cup {B64Encode(PngFile(6, <<0>>)), B64Encode(TextFile),
            JpegFile(3, <<0>>), JpegFile(4, <<0>>), JPEG_SOI \o <<3, 0>>, <<>>}

PartKinds == {TextPart, InlinePart(PngFile(2, <<0>>)), InlinePart(JpegFile(3, <<0>>))}
PartLists == UNION {[1..n -> PartKinds] : n \in 0..MaxParts}

Returned(parts) == [kind |-> "parts", parts |-> parts, msg |-> <<>>]
ServiceError == [kind |-> "error", parts |-> <<>>, msg |-> <<"503 UNAVAILABLE">>]
NoCandidates == [kind |-> "no_candidates", parts |-> <<>>, msg |-> <<>>]

Outcomes ==
    {ServiceError, NoCandidates}
      \cup {Returned(<<InlinePart(p)>>) : p \in Payloads}
      \cup {Returned(ps) : ps \in PartLists}

WriteOutcomes == {"ok", "open_fails", "write_fails"}

\* The smaller universe used when two requests are in flight together.
ConcContentTypes == {ImagePng, <<"text/", "plain">>}
ConcUploads == {PngFile(2, <<0>>), TextFile}
ConcOutcomes == {ServiceError, Returned(<<InlinePart(PngFile(2, <<0>>))>>),
                 Returned(<<InlinePart(PngFile(2, <<65>>))>>)}

(***************************************************************************)
(* Specifications.                                                         *)
(***************************************************************************)
InitProcess ==
    /\ startup = "load"
    /\ env_key \in {None, "", "secret"}
    /\ client = NoClient
    /\ routes = {}
    /\ root_reply = None
    /\ running = 0
    /\ files = [p \in {} |-> [data |-> <<>>, writers |-> {}]]

Init == InitProcess /\ req = [r \in {1} |-> IdleRequest]

InitConc == InitProcess /\ req = [r \in {1, 2} |-> IdleRequest]

Next ==
    \/ CreateApp
    \/ LoadKey
    \/ CreateClient
    \/ RegisterTransform
    \/ RegisterRoot
    \/ Root
    \/ \E r \in DOMAIN req, ct \in ContentTypes, b \in UploadFiles, y \in Years :
         Receive(r, ct, b, y)
    \/ \E r \in DOMAIN req : CheckType(r)
    \/ \E r \in DOMAIN req : ReadFile(r)
    \/ \E r \in DOMAIN req : OpenImage(r)
    \/ \E r \in DOMAIN req : Normalize(r)
    \/ \E r \in DOMAIN req, out \in Outcomes : CallModel(r, out)
    \/ \E r \in DOMAIN req : ExtractParts(r)
    \/ \E r \in DOMAIN req, how \in WriteOutcomes : SaveDebug(r, how)
    \/ \E r \in DOMAIN req : DecodeB64(r)
    \/ \E r \in DOMAIN req : OpenTransformed(r)
    \/ \E r \in DOMAIN req : Respond(r)

NextConc ==
    \/ CreateApp
    \/ LoadKey
    \/ CreateClient
    \/ RegisterTransform
    \/ RegisterRoot
    \/ Root
    \/ \E r \in DOMAIN req, ct \in ConcContentTypes, b \in ConcUploads, y \in Years :
         Receive(r, ct, b, y)
    \/ \E r \in DOMAIN req : CheckType(r)
    \/ \E r \in DOMAIN req : ReadFile(r)
    \/ \E r \in DOMAIN req : OpenImage(r)
    \/ \E r \in DOMAIN req : Normalize(r)
    \/ \E r \in DOMAIN req, out \in ConcOutcomes : CallModel(r, out)
    \/ \E r \in DOMAIN req : ExtractParts(r)
    \/ \E r \in DOMAIN req, how \in WriteOutcomes : SaveDebug(r, how)
    \/ \E r \in DOMAIN req : DecodeB64(r)
    \/ \E r \in DOMAIN req : OpenTransformed(r)
    \/ \E r \in DOMAIN req : Respond(r)

Spec == Init /\ [][Next]_vars

SpecConc == InitConc /\ [][NextConc]_vars

(***************************************************************************)
(* Properties.                                                             *)
(***************************************************************************)
Done(r) == req[r].pc = "done"

\* The upload passes the three validation steps of lines 48-69.
ValidUpload(q) ==
    /\ q.content_type # NoContentType
    /\ Len(q.content_type) > 0
    /\ q.content_type[1] = "image/"
    /\ Len(q.upload) > 0
    /\ OpenVerified(q.upload).ok

\* A response's parts, read as the specification reads them.
HasBinary(parts) == \E i \in 1..Len(parts) : parts[i].has_inline
FirstBinary(parts) ==
    LET i == CHOOSE k \in 1..Len(parts) :
                 parts[k].has_inline /\ \A j \in 1..(k - 1) : ~parts[j].has_inline
    IN parts[i].inline_data.data

Answered(q) == q.outcome \in {"parts", "no_candidates"} /\ q.pc # "extract"
Selected(q) == q.outcome = "parts" /\ q.pc # "extract" /\ HasBinary(q.parts)

\* C1: every request whose upload is invalid (declared content type not
\* prefixed image/, or empty body, or bytes failing the decode/integrity
\* check) is answered with status 400, never 500.
DeclaredInvalidUpload(q) ==
    /\ q.content_type # NoContentType
    /\ \/ q.content_type[1] # "image/"
       \/ q.upload = <<>>
       \/ ~OpenVerified(q.upload).ok

C1_InvalidUploadIs400 ==
    \A r \in DOMAIN req :
        Done(r) /\ DeclaredInvalidUpload(req[r]) => req[r].reply.status = 400

\* C2: a request ends with 200, image/png and the attachment name of its own
\* year exactly when validation, the external call, the selection of a binary
\* part and the decode of the returned payload all succeeded; otherwise it
\* ends with an error reply that has a detail and no image body.
AllStagesSucceeded(q) ==
    /\ ValidUpload(q)
    /\ q.outcome = "parts"
    /\ HasBinary(q.parts)
    /\ OpenVerified(SpeculativeDecode(FirstBinary(q.parts))).ok

C2_SuccessIffAllStages ==
    \A r \in DOMAIN req :
        Done(r) =>
            LET q == req[r] IN
            /\ AllStagesSucceeded(q) <=>
                 /\ q.reply.status = 200
                 /\ q.reply.media_type = "image/png"
                 /\ q.reply.disposition
                      = <<"attachment; filename=time_travel_">> \o IntToStr(q.year) \o <<".png">>
            /\ ~AllStagesSucceeded(q) =>
                 /\ q.reply.status >= 400
                 /\ q.reply.detail # <<>>
                 /\ q.reply.body = <<>>

\* C3: with a valid upload, when the external call raises, or the selected
\* payload cannot be opened as an image after the base64 step, the request
\* ends with status 500 and a detail that includes the message of the
\* exception that ended it.
EndingMessage(q) ==
    IF q.outcome = "error" THEN ServiceError.msg
    ELSE IF q.debug = "open_fails" THEN PermissionDenied
    ELSE IF q.debug = "write_fails" THEN NoSpaceLeft
    ELSE OpenVerified(SpeculativeDecode(FirstBinary(q.parts))).msg

C3_ServiceFailureIs500 ==
    \A r \in DOMAIN req :
        LET q == req[r] IN
        /\ Done(r)
        /\ ValidUpload(q)
        /\ \/ q.outcome = "error"
           \/ /\ Selected(q)
              /\ ~OpenVerified(SpeculativeDecode(FirstBinary(q.parts))).ok
        => /\ q.reply.status = 500
           /\ Contains(q.reply.detail, EndingMessage(q))

C3_Witness ==
    \E r \in DOMAIN req :
        LET q == req[r] IN
        /\ Done(r)
        /\ ValidUpload(q)
        /\ Selected(q)
        /\ q.debug = "ok"
        /\ ~OpenVerified(q.image_data_decoded).ok
        /\ q.reply.status = 500
        /\ Contains(q.reply.detail, <<"cannot identify image file">>)

\* C4: the payload used by the rest of the pipeline is the first part, in
\* order, that carries a binary payload; later binary parts and text parts
\* are ignored; a response with no binary part ends with status 500.
C4_FirstBinarySelected ==
    \A r \in DOMAIN req :
        LET q == req[r] IN
        Answered(q) =>
            IF HasBinary(q.parts)
            THEN /\ q.image_parts # <<>>
                 /\ q.image_parts[1] = FirstBinary(q.parts)
                 /\ q.debug = "ok" =>
                      files[DebugPath(q.year)].data = FirstBinary(q.parts)
                 /\ q.pc \in {"reopen", "encode"} \/ (Done(r) /\ q.debug = "ok") =>
                      q.image_data_decoded = SpeculativeDecode(FirstBinary(q.parts))
            ELSE Done(r) /\ q.reply.status = 500

C4_Witness ==
    \E r \in DOMAIN req :
        LET q == req[r] IN
        /\ Done(r)
        /\ Len(q.parts) = 2
        /\ q.parts[1].has_inline
        /\ q.parts[2].has_inline
        /\ q.parts[1] # q.parts[2]
        /\ q.image_data_decoded = q.parts[1].inline_data.data
        /\ q.reply.status = 200

\* C5: for every selected payload that is raw PNG bytes the speculative
\* base64 decode raises, the raw bytes are used unchanged for decoding, and
\* the request ends with status 200 (stated here for the requests whose debug
\* write succeeded, so that the decode step was reached).
RawPng(p) == OpenVerified(p).ok /\ OpenVerified(p).img.format = "PNG"

C5_RawPngKept ==
    \A r \in DOMAIN req :
        LET q == req[r] IN
        Done(r) /\ Selected(q) /\ q.debug = "ok" /\ RawPng(FirstBinary(q.parts)) =>
            /\ ~B64Decode(FirstBinary(q.parts)).ok
            /\ q.image_data_decoded = FirstBinary(q.parts)
            /\ q.reply.status = 200

\* C6: whatever the declared type, format and colour mode of a validated
\* upload, the bytes submitted to the model are a PNG in RGB and are declared
\* as image/png.
C6_SubmittedIsRgbPng ==
    \A r \in DOMAIN req :
        LET q == req[r] IN
        q.api_calls > 0 =>
            /\ q.sent.mime_type = <<"image/", "png">>
            /\ PILOpen(q.sent.data).ok
            /\ PILOpen(q.sent.data).img.format = "PNG"
            /\ PILOpen(q.sent.data).img.mode = "RGB"

\* C7: a failing debug write never changes the reply: two requests with the
\* same upload, year and model response get the same status and body whether
\* or not their debug write succeeded.
C7_DebugFailureInvisible ==
    \A r1, r2 \in DOMAIN req :
        /\ Done(r1)
        /\ Done(r2)
        /\ req[r1].content_type = req[r2].content_type
        /\ req[r1].upload = req[r2].upload
        /\ req[r1].year = req[r2].year
        /\ req[r1].outcome = req[r2].outcome
        /\ req[r1].parts = req[r2].parts
        => /\ req[r1].reply.status = req[r2].reply.status
           /\ req[r1].reply.body = req[r2].reply.body

\* C8: in one request the external API is called at most once: exactly once
\* when the upload passes every validation step, and not at all when a
\* validation step fails, in which case no debug file is written either.
C8_OneCallPerValidUpload ==
    \A r \in DOMAIN req :
        LET q == req[r] IN
        /\ q.api_calls <= 1
        /\ Done(r) =>
             IF ValidUpload(q)
             THEN q.api_calls = 1
             ELSE q.api_calls = 0 /\ q.debug = "none" /\ DOMAIN files = {}

\* C9: requests in flight together, also with the same year, write no
\* location that another request writes or reads.
C9_NoSharedLocation ==
    \A p \in DOMAIN files : Cardinality(files[p].writers) <= 1

\* C10: with GEMINI_API_KEY absent or empty, start-up stops before the client
\* is created and before any route is registered, and no request is served.
C10_NoKeyNoService ==
    env_key \in {None, ""} =>
        /\ startup \in {"load", "app", "crashed"}
        /\ ~client.created
        /\ routes = {}
        /\ root_reply = None
        /\ \A r \in DOMAIN req : req[r].pc = "idle"

C10_Witness == env_key = "" /\ startup = "crashed"

=============================================================================
